---- MODULE Spec2Model ----
(***************************************************************************)
(* A model of remove_nvmp.py: the name/line Matcher, the Scanner (walk and *)
(* covering-path collapse), the Text editor and the Remover, run by main() *)
(* over a small file system.  Text is modelled as tuples of one-character  *)
(* strings so that the regular expressions, str.lower(), the sort keys and *)
(* str.replace(":", "") are computed on characters, as the code does.      *)
(***************************************************************************)
EXTENDS Integers, Sequences, FiniteSets, TLC

VARIABLES
    os_name,      \* os.name: "nt" or "posix"
    args,         \* the parsed command line and the process's working directory
    fs,           \* the file system: path -> node
    fs0,          \* the file system as the run found it
    pc,           \* main()'s position
    exit_code,    \* main()'s return value, -1 while running
    roots,        \* build_roots(...)
    backup_dir,   \* main()'s backup_dir, <<>> for None
    found,        \* what walk_find_matches returned
    matches,      \* the collapsed match list
    todo,         \* text targets not yet cleaned (loadlists, then inis)
    targets,      \* loadlists + inis, as find_text_targets returned them
    edit_msgs,    \* messages of strip_nvmp_lines_from_text_file, in order
    results,      \* outcomes of remove_path, in order
    failures,     \* injected OS failures so far
    cin, cout, cout2, cstep   \* collapse_covered_paths applied on its own

vars == <<os_name, args, fs, fs0, pc, exit_code, roots, backup_dir, found, matches,
          todo, targets, edit_msgs, results, failures, cin, cout, cout2, cstep>>

(***************************************************************************)
(* Characters and strings                                                  *)
(***************************************************************************)
UpperChars == <<"A","B","C","D","E","F","G","H","I","J","K","L","M","N","O","P","Q","R","S","T","U","V","W","X","Y","Z">>
LowerChars == <<"a","b","c","d","e","f","g","h","i","j","k","l","m","n","o","p","q","r","s","t","u","v","w","x","y","z">>
DigitChars == <<"0","1","2","3","4","5","6","7","8","9">>

\* The characters the model uses, in ASCII order (the order Python compares str by).
AsciiOrder ==
    <<"\n", "\r", " ", ".", "/">> \o DigitChars \o <<":">> \o UpperChars
        \o <<"\\", "_">> \o LowerChars

Range(s) == { s[i] : i \in DOMAIN s }

UpperSet == Range(UpperChars)
WordSet == Range(UpperChars) \cup Range(LowerChars) \cup Range(DigitChars) \cup {"_"}

\* a tuple of distinct elements, inverted: element -> index
RECURSIVE IndexOf(_, _)
IndexOf(s, n) == IF n = 0 THEN <<>> ELSE (s[n] :> n) @@ IndexOf(s, n - 1)

OrdTable == IndexOf(AsciiOrder, Len(AsciiOrder))
UpperIndex == IndexOf(UpperChars, Len(UpperChars))

Ord(c) == OrdTable[c]

LowerChar(c) == IF c \in UpperSet THEN LowerChars[UpperIndex[c]] ELSE c

\* str.lower()
Lower(s) == [i \in DOMAIN s |-> LowerChar(s[i])]

\* Python's < on str: lexicographic by code point, a proper prefix is smaller.
RECURSIVE StrLess(_, _)
StrLess(a, b) ==
    IF b = <<>> THEN FALSE
    ELSE IF a = <<>> THEN TRUE
    ELSE IF a[1] # b[1] THEN Ord(a[1]) < Ord(b[1])
    ELSE StrLess(Tail(a), Tail(b))

\* \w and \s of the re module, on the model's characters
IsWordChar(c) == c \in WordSet
IsSpaceChar(c) == c \in {" ", "\n", "\r"}

\* lit occurs in s starting at position i
LitAt(s, i, lit) ==
    /\ i >= 1
    /\ i + Len(lit) - 1 <= Len(s)
    /\ \A k \in DOMAIN lit : s[i + k - 1] = lit[k]

\* \b at the gap before position i (1 .. Len(s)+1)
WordBoundary(s, i) ==
    LET before == i > 1 /\ IsWordChar(s[i - 1])
        after  == i <= Len(s) /\ IsWordChar(s[i])
    IN before # after

\* \s* is greedy; every literal that follows it starts with a non-space
\* character, so the greedy end is the only one a match can use.
RECURSIVE SkipSpace(_, _)
SkipSpace(s, i) ==
    IF i <= Len(s) /\ IsSpaceChar(s[i]) THEN SkipSpace(s, i + 1) ELSE i

\* the literals lits, separated by \s*, matched from position i; the end position + 1, or 0
RECURSIVE LitsEnd(_, _, _)
LitsEnd(s, i, lits) ==
    IF lits = <<>> THEN i
    ELSE IF LitAt(s, i, Head(lits))
         THEN LitsEnd(s, IF Len(lits) > 1 THEN SkipSpace(s, i + Len(Head(lits)))
                           ELSE i + Len(Head(lits)),
                      Tail(lits))
         ELSE 0

(***************************************************************************)
(* Identification heuristics                                               *)
(***************************************************************************)
\* Each pattern: literals joined by \s*, optionally between two \b; all IGNORECASE.
NVMP_NAME_PATTERNS ==
    << [bounded |-> TRUE,  lits |-> << <<"n","v","m","p">> >>],
       [bounded |-> FALSE, lits |-> << <<"n","v","m","p","_">> >>],
       [bounded |-> FALSE, lits |-> << <<"n","e","w">>, <<"v","e","g","a","s">>, <<"m","p">> >>],
       [bounded |-> FALSE, lits |-> << <<"n","e","w","v","e","g","a","s","m","p">> >>],
       [bounded |-> FALSE, lits |-> << <<"n","e","w">>, <<"v","e","g","a","s">>,
                                       <<"m","u","l","t","i","p","l","a","y","e","r">> >>] >>

NVMP_KNOWN_FILENAMES ==
    { <<"n","v","m","p","_","l","a","u","n","c","h","e","r",".","e","x","e">>,
      <<"n","v","m","p","_","s","t","a","r","t",".","e","x","e">>,
      <<"n","v","m","p","_","s","t","o","r","y","s","e","r","v","e","r",".","e","x","e">>,
      <<"n","v","m","p",".","l","o","g">>,
      <<"n","v","m","p","_","l","a","u","n","c","h","e","r","_","l","a","s","t","_","e","r","r","o","r",".","l","o","g">> }

LOADLIST_FILENAMES ==
    << <<"p","l","u","g","i","n","s",".","t","x","t">>,
       <<"l","o","a","d","o","r","d","e","r",".","t","x","t">> >>

INI_FILENAMES ==
    << <<"F","a","l","l","o","u","t",".","i","n","i">>,
       <<"F","a","l","l","o","u","t","P","r","e","f","s",".","i","n","i">>,
       <<"n","v","s","e","_","c","o","n","f","i","g",".","i","n","i">>,
       <<"n","v","s","e",".","i","n","i">> >>

DEFAULT_MAX_MATCHES == 10000

\* p.search(name)
PatSearch(p, name) ==
    LET s == Lower(name)
    IN \E i \in 1..Len(s) :
          LET e == LitsEnd(s, i, p.lits)
          IN /\ e # 0
             /\ p.bounded => (WordBoundary(s, i) /\ WordBoundary(s, e))

pat_match(name) ==
    \/ Lower(name) \in NVMP_KNOWN_FILENAMES
    \/ \E k \in DOMAIN NVMP_NAME_PATTERNS : PatSearch(NVMP_NAME_PATTERNS[k], name)

(***************************************************************************)
(* Paths: a path is the tuple of its parts (pathlib's Path.parts); the     *)
(* first part of an absolute path is its anchor ("/" or "C:\").            *)
(***************************************************************************)
Sep == IF os_name = "nt" THEN "\\" ELSE "/"

IsAnchorPart(part) ==
    IF os_name = "nt"
    THEN Len(part) = 3 /\ part[2] = ":" /\ part[3] = "\\"
    ELSE part = <<"/">>

is_absolute(p) == p # <<>> /\ IsAnchorPart(p[1])

RECURSIVE JoinParts(_)
JoinParts(parts) ==
    IF parts = <<>> THEN <<>>
    ELSE IF Len(parts) = 1 THEN parts[1]
    ELSE parts[1] \o <<Sep>> \o JoinParts(Tail(parts))

\* str(p)
StrOf(p) == IF is_absolute(p) THEN p[1] \o JoinParts(Tail(p)) ELSE JoinParts(p)

\* the parts of s between separators, empty ones dropped
RECURSIVE SplitParts(_, _)
SplitParts(s, cur) ==
    IF s = <<>> THEN (IF cur = <<>> THEN <<>> ELSE <<cur>>)
    ELSE IF s[1] = Sep
         THEN (IF cur = <<>> THEN <<>> ELSE <<cur>>) \o SplitParts(Tail(s), <<>>)
         ELSE SplitParts(Tail(s), Append(cur, s[1]))

\* Path(s)
PathOf(s) ==
    IF os_name = "nt"
    THEN IF Len(s) >= 3 /\ s[2] = ":" /\ s[3] = "\\"
         THEN <<SubSeq(s, 1, 3)>> \o SplitParts(SubSeq(s, 4, Len(s)), <<>>)
         ELSE SplitParts(s, <<>>)
    ELSE IF Len(s) >= 1 /\ s[1] = "/"
         THEN << <<"/">> >> \o SplitParts(Tail(s), <<>>)
         ELSE SplitParts(s, <<>>)

\* a / b: an absolute right operand replaces the left one
PathJoin(a, b) == IF is_absolute(b) THEN b ELSE a \o b

PathName(p) == p[Len(p)]
PathParent(p) == SubSeq(p, 1, Len(p) - 1)

\* p.parents
PathParents(p) == { SubSeq(p, 1, k) : k \in 1..(Len(p) - 1) }

\* q lies strictly below d
IsUnder(d, q) == Len(q) > Len(d) /\ SubSeq(q, 1, Len(d)) = d
AtOrUnder(d, q) == q = d \/ IsUnder(d, q)

\* sort keys: str(p).lower(), and (len(p.parts), str(p).lower())
KeyLess(a, b, byDepth) ==
    IF byDepth /\ Len(a) # Len(b) THEN Len(a) < Len(b)
    ELSE StrLess(Lower(StrOf(a)), Lower(StrOf(b)))

\* sorted(): stable
RECURSIVE SortInsert(_, _, _)
SortInsert(x, s, byDepth) ==
    IF s = <<>> THEN <<x>>
    ELSE IF KeyLess(x, Head(s), byDepth) THEN <<x>> \o s
    ELSE <<Head(s)>> \o SortInsert(x, Tail(s), byDepth)

RECURSIVE Sorted(_, _)
Sorted(s, byDepth) ==
    IF s = <<>> THEN <<>>
    ELSE SortInsert(s[Len(s)], Sorted(SubSeq(s, 1, Len(s) - 1), byDepth), byDepth)

\* a collapse that looks at the direct parent only
collapse_direct_parent_only(paths) ==
    LET path_set == Range(paths)
        NotCovered(p) == PathParent(p) \notin path_set
    IN SelectSeq(Sorted(paths, TRUE), NotCovered)

collapse_covered_paths(paths) ==
    LET path_set == Range(paths)
        NotCovered(p) == ~ \E parent \in PathParents(p) : parent \in path_set
    IN SelectSeq(Sorted(paths, TRUE), NotCovered)

\* str.replace(":", "")
StripColons(s) == LET NotColon(c) == c # ":" IN SelectSeq(s, NotColon)

safe_rel_for_backup(p) == PathOf(StripColons(StrOf(p)))

(***************************************************************************)
(* The file system: a function from the paths that exist to their nodes.   *)
(***************************************************************************)
DirNode == [kind |-> "dir", data |-> <<>>, target |-> <<>>]
FileNode(d) == [kind |-> "file", data |-> d, target |-> <<>>]
LinkNode(t) == [kind |-> "link", data |-> <<>>, target |-> t]

is_symlink(f, p) == p \in DOMAIN f /\ f[p].kind = "link"

\* Path.resolve(): symbolic links are followed (the walk never descends through
\* one, so only the last part can be a link; link targets are not links)
resolve(f, p) == IF is_symlink(f, p) THEN f[p].target ELSE p

\* Path.exists(), Path.is_dir(), Path.is_file(): all follow links
path_exists(f, p) == resolve(f, p) \in DOMAIN f
is_dir(f, p) == path_exists(f, p) /\ f[resolve(f, p)].kind = "dir"
is_file(f, p) == path_exists(f, p) /\ f[resolve(f, p)].kind = "file"

Without(f, gone) == [q \in DOMAIN f \ gone |-> f[q]]

\* Path.mkdir(parents=True, exist_ok=True)
ensure_dir(f, p) ==
    LET new == { SubSeq(p, 1, k) : k \in 1..Len(p) } \ DOMAIN f
    IN [q \in new |-> DirNode] @@ f

rmtree(f, p) == Without(f, { q \in DOMAIN f : AtOrUnder(p, q) })
unlink(f, p) == Without(f, {p})

\* shutil.copy2(src, dst): dst gets src's bytes, replacing what was there
copy2(f, src, dst) == (dst :> FileNode(f[resolve(f, src)].data)) @@ f

\* os.rename of an existing src to a free dst: src and all below it change place
Rename(f, src, dst) ==
    LET moved == { q \in DOMAIN f : AtOrUnder(src, q) }
        NewPath(q) == dst \o SubSeq(q, Len(src) + 1, Len(q))
        rest == Without(f, moved)
    IN [q \in { NewPath(m) : m \in moved } |->
           f[CHOOSE m \in moved : NewPath(m) = q]] @@ rest

\* shutil.move(src, dst): the file system after it, and whether it raised
shutil_move(f, src, dst) ==
    LET into == dst \in DOMAIN f /\ f[dst].kind = "dir" /\ dst # src
        real_dst == IF into THEN Append(dst, PathName(src)) ELSE dst
    IN IF real_dst = src
       THEN [fs |-> f, raised |-> FALSE]                  \* rename onto itself
       ELSE IF into /\ real_dst \in DOMAIN f
       THEN [fs |-> f, raised |-> TRUE]                   \* "already exists"
       ELSE IF IsUnder(src, real_dst)
       THEN [fs |-> f, raised |-> TRUE]                   \* "into itself"
       ELSE IF real_dst \in DOMAIN f /\ f[src].kind = "dir"
       THEN [fs |-> f, raised |-> TRUE]                   \* a directory onto a file
       ELSE [fs |-> Rename(Without(f, {real_dst}), src, real_dst), raised |-> FALSE]

(***************************************************************************)
(* Text files: bytes, the text Python reads from them and writes to them   *)
(***************************************************************************)
\* open(newline=None).read(): "\r\n" and "\r" both arrive as "\n"
RECURSIVE UniversalNewlines(_)
UniversalNewlines(b) ==
    IF b = <<>> THEN <<>>
    ELSE IF b[1] = "\r"
         THEN <<"\n">> \o UniversalNewlines(IF Len(b) >= 2 /\ b[2] = "\n"
                                            THEN SubSeq(b, 3, Len(b)) ELSE Tail(b))
         ELSE <<b[1]>> \o UniversalNewlines(Tail(b))

\* open(newline=None).write(): every "\n" leaves as os.linesep
RECURSIVE WriteNewlines(_)
WriteNewlines(t) ==
    IF t = <<>> THEN <<>>
    ELSE (IF t[1] = "\n" /\ os_name = "nt" THEN <<"\r", "\n">> ELSE <<t[1]>>)
             \o WriteNewlines(Tail(t))

read_text(f, p) == UniversalNewlines(f[resolve(f, p)].data)
write_text(f, p, t) == (resolve(f, p) :> FileNode(WriteNewlines(t))) @@ f

\* str.splitlines(True): the lines, each with its terminator ("\r\n", "\n" or "\r")
RECURSIVE splitlines(_, _)
splitlines(t, cur) ==
    IF t = <<>> THEN (IF cur = <<>> THEN <<>> ELSE <<cur>>)
    ELSE IF t[1] = "\r" /\ Len(t) >= 2 /\ t[2] = "\n"
         THEN <<cur \o <<"\r", "\n">> >> \o splitlines(SubSeq(t, 3, Len(t)), <<>>)
    ELSE IF t[1] \in {"\n", "\r"}
         THEN <<Append(cur, t[1])>> \o splitlines(Tail(t), <<>>)
    ELSE splitlines(Tail(t), Append(cur, t[1]))

\* "".join(lines)
RECURSIVE Concat(_)
Concat(lines) == IF lines = <<>> THEN <<>> ELSE Head(lines) \o Concat(Tail(lines))

(***************************************************************************)
(* Scan roots                                                              *)
(***************************************************************************)
S_FalloutNV_exe == <<"F","a","l","l","o","u","t","N","V",".","e","x","e">>
S_Data == <<"D","a","t","a">>
S_nvse == <<"n","v","s","e">>
S_plugins == <<"p","l","u","g","i","n","s">>

None == <<>>

\* the one conventional install location of the modelled machine
Anchor == IF os_name = "nt" THEN <<"C", ":", "\\">> ELSE <<"/">>
GameDir == <<Anchor, <<"F","N","V">> >>

\* the detectors find the game where FalloutNV.exe exists; the first find wins
autodetect_game_dir(f) ==
    IF path_exists(f, Append(GameDir, S_FalloutNV_exe)) THEN GameDir ELSE None

\* no user profile, Vortex or MO2 directory exists on the modelled machine:
\* the candidates are the game directory's three, kept when they exist
build_roots(f, game_dir) ==
    LET cands == << game_dir, Append(game_dir, S_Data),
                    game_dir \o <<S_Data, S_nvse, S_plugins>> >>
        Present(r) == path_exists(f, r)
    IN SelectSeq(cands, Present)

(***************************************************************************)
(* Find NVMP items                                                         *)
(***************************************************************************)
Children(f, d) == { q \in DOMAIN f : Len(q) = Len(d) + 1 /\ IsUnder(d, q) }

\* a set of paths as the list sorted by str(p).lower()
RECURSIVE Listing(_)
Listing(S) ==
    IF S = {} THEN <<>>
    ELSE LET x == CHOOSE x \in S : TRUE
         IN SortInsert(x, Listing(S \ {x}), FALSE)

\* os.scandir(dp): the entries of dp, in the order the volume keeps them
\* (by case-folded name, as NTFS does)
scandir(f, dp) == Listing(Children(f, dp))

\* os.walk's dirnames and filenames of dp, as paths
dirnames(f, dp) == LET IsDir(c) == is_dir(f, c) IN SelectSeq(scandir(f, dp), IsDir)
filenames(f, dp) == LET NotDir(c) == ~ is_dir(f, c) IN SelectSeq(scandir(f, dp), NotDir)

\* os.walk(top), top-down, symbolic links to directories listed but not entered:
\* the directories visited, in order
RECURSIVE os_walk(_, _)
RECURSIVE WalkEach(_, _)
os_walk(f, top) ==
    IF ~ is_dir(f, top) THEN <<>>
    ELSE LET Enter(c) == ~ is_symlink(f, c)
         IN <<top>> \o WalkEach(f, SelectSeq(dirnames(f, top), Enter))
WalkEach(f, dirs) ==
    IF dirs = <<>> THEN <<>> ELSE os_walk(f, Head(dirs)) \o WalkEach(f, Tail(dirs))

RECURSIVE WalkRoots(_, _)
WalkRoots(f, rs) ==
    IF rs = <<>> THEN <<>> ELSE os_walk(f, Head(rs)) \o WalkRoots(f, Tail(rs))

\* the entries whose name matches, in the order the two inner loops meet them
RECURSIVE Candidates(_, _)
Candidates(f, dps) ==
    IF dps = <<>> THEN <<>>
    ELSE LET entries == scandir(f, Head(dps))
             DirHit(c) == is_dir(f, c) /\ pat_match(PathName(c))
             FileHit(c) == ~ is_dir(f, c) /\ pat_match(PathName(c))
         IN SelectSeq(entries, DirHit) \o SelectSeq(entries, FileHit)
                \o Candidates(f, Tail(dps))

\* add() and the cap test after it, over the matching entries
RECURSIVE WalkAdd(_, _, _, _)
WalkAdd(f, cands, ms, max_matches) ==
    IF cands = <<>> THEN [matches |-> ms, stopped |-> FALSE]
    ELSE LET p == resolve(f, Head(cands))
             seen == { Lower(StrOf(m)) : m \in Range(ms) }
             ms2 == IF Lower(StrOf(p)) \notin seen THEN Append(ms, p) ELSE ms
         IN IF Len(ms2) >= max_matches
            THEN [matches |-> ms2, stopped |-> TRUE]
            ELSE WalkAdd(f, Tail(cands), ms2, max_matches)

walk_find_matches(f, rs, max_matches) ==
    LET r == WalkAdd(f, Candidates(f, WalkRoots(f, rs)), <<>>, max_matches)
    IN IF r.stopped THEN r.matches ELSE Sorted(r.matches, FALSE)

(***************************************************************************)
(* Backup + removal                                                        *)
(***************************************************************************)
S_NVMP_Removed == <<"N","V","M","P","_","R","e","m","o","v","e","d","_">>

\* strftime of the clock reading t: digits (and "_") only
stamp(t) == <<DigitChars[t + 1]>>

backup_root(default_base, t) == Append(default_base, S_NVMP_Removed \o stamp(t))

\* the body of remove_path's try block; fail: the OS refuses the removal itself
remove_path_try(f, p, bdir, permanent_delete, fail) ==
    IF ~ path_exists(f, p)
    THEN [fs |-> f, outcome |-> "SKIP", dst |-> None]
    ELSE IF permanent_delete
    THEN IF fail THEN [fs |-> f, outcome |-> "RAISE", dst |-> None]
         ELSE [fs |-> IF is_dir(f, p) /\ ~ is_symlink(f, p) THEN rmtree(f, p) ELSE unlink(f, p),
               outcome |-> "DELETED", dst |-> None]
    ELSE IF bdir = None
    THEN [fs |-> f, outcome |-> "ERROR", dst |-> None]
    ELSE LET dst == PathJoin(bdir, safe_rel_for_backup(p))
             f1 == ensure_dir(f, PathParent(dst))
             mv == shutil_move(f1, p, dst)
         IN IF fail \/ mv.raised
            THEN [fs |-> f1, outcome |-> "RAISE", dst |-> dst]
            ELSE [fs |-> mv.fs, outcome |-> "MOVED", dst |-> dst]

\* a remove_path whose exceptions reach main()
remove_path_uncaught(f, p, bdir, permanent_delete, fail) ==
    LET r == remove_path_try(f, p, bdir, permanent_delete, fail)
    IN [fs |-> r.fs, path |-> p, dst |-> r.dst, existed |-> path_exists(f, p),
        outcome |-> IF r.outcome = "RAISE" THEN "ERROR" ELSE r.outcome,
        escaped |-> r.outcome = "RAISE"]

\* remove_path: every exception becomes the item's ERROR outcome
remove_path(f, p, bdir, permanent_delete, fail) ==
    LET r == remove_path_try(f, p, bdir, permanent_delete, fail)
    IN [fs |-> r.fs, path |-> p, dst |-> r.dst, existed |-> path_exists(f, p),
        outcome |-> IF r.outcome = "RAISE" THEN "ERROR" ELSE r.outcome,
        escaped |-> FALSE]

(***************************************************************************)
(* Clean load lists + INIs                                                 *)
(***************************************************************************)
S_bak == <<".","b","a","k">>

BakPath(bdir, path) == Append(bdir, PathName(path) \o S_bak)

\* the backup step of strip_nvmp_lines_from_text_file: both of its branches
\* need a backup_dir and do the same
strip_backup(f, path, bdir, permanent_delete) ==
    IF ~ permanent_delete /\ bdir # None
    THEN copy2(ensure_dir(f, bdir), path, BakPath(bdir, path))
    ELSE IF permanent_delete /\ bdir # None
    THEN copy2(ensure_dir(f, bdir), path, BakPath(bdir, path))
    ELSE f

\* the body of strip_nvmp_lines_from_text_file's try block;
\* fail: "none", or the OS refuses the "read" or the "write"
strip_try(f, path, bdir, permanent_delete, fail) ==
    IF ~ path_exists(f, path) \/ ~ is_file(f, path)
    THEN [fs |-> f, kind |-> "NONE", removed |-> 0]
    ELSE IF fail = "read"
    THEN [fs |-> f, kind |-> "RAISE", removed |-> 0]
    ELSE LET raw == splitlines(read_text(f, path), <<>>)
             Keep(line) == ~ pat_match(line)
             kept == SelectSeq(raw, Keep)
             removed == Len(raw) - Len(kept)
             f1 == strip_backup(f, path, bdir, permanent_delete)
         IN IF removed = 0
            THEN [fs |-> f, kind |-> "NONE", removed |-> 0]
            ELSE IF fail = "write"
            THEN [fs |-> f1, kind |-> "RAISE", removed |-> 0]
            ELSE [fs |-> write_text(f1, path, Concat(kept)), kind |-> "EDITED",
                  removed |-> removed]

\* strip_nvmp_lines_from_text_file: every exception becomes the file's message
strip_nvmp_lines_from_text_file(f, path, bdir, permanent_delete, fail) ==
    LET r == strip_try(f, path, bdir, permanent_delete, fail)
    IN [fs |-> r.fs,
        msgs |-> IF r.kind = "NONE" THEN <<>>
                 ELSE <<[kind |-> IF r.kind = "RAISE" THEN "ERROR" ELSE r.kind,
                         path |-> path, removed |-> r.removed]>>,
        failed |-> r.kind = "RAISE",
        escaped |-> FALSE]

\* find_text_targets: the named files met by the walk, resolved, each once
TextTargets(f, rs, names) ==
    LET dps == Range(WalkRoots(f, rs))
        met == { c \in UNION { Range(filenames(f, dp)) : dp \in dps } :
                     PathName(c) \in Range(names) }
    IN { resolve(f, c) : c \in met }

find_text_targets(f, rs) ==
    LET loadlists == TextTargets(f, rs, LOADLIST_FILENAMES)
        inis == TextTargets(f, rs, INI_FILENAMES) \ loadlists
    IN <<Listing(loadlists), Listing(inis)>>

(***************************************************************************)
(* The machine a run starts on                                             *)
(***************************************************************************)
MaxLines == 2        \* lines of the first load list
MaxCap == 1          \* --max-matches ranges over 0..MaxCap and the default
MaxFailures == 1     \* OS refusals injected in one run
MaxParts == 2        \* optional parts of the tree present at once

Now == 2             \* the clock reading of this run; an earlier run read Now - 1

S_plugins_txt == LOADLIST_FILENAMES[1]
S_Fallout_ini == INI_FILENAMES[1]
S_Launcher == <<"N","V","M","P","_","L","a","u","n","c","h","e","r",".","e","x","e">>
S_Other == <<"O","t","h","e","r",".","e","s","p">>
S_nvmp == <<"n","v","m","p">>
S_nvmp_d == <<"n","v","m","p","_","d">>
S_nvmp_log == <<"n","v","m","p",".","l","o","g">>
S_nvmp_lnk == <<"n","v","m","p","_","l","n","k">>
S_NVMP_esp == <<"N","V","M","P",".","e","s","p">>

DataDir == Append(GameDir, S_Data)
WorkDir == <<Anchor, <<"W">> >>
OtherFile == Append(DataDir, S_Other)
GonePath == <<Anchor, <<"g","o","n","e">> >>
LinkPath == Append(DataDir, S_nvmp_lnk)

LineTexts == { <<"A">>, S_NVMP_esp }
Eols == { <<"\n">>, <<"\r", "\n">> }

RECURSIVE SeqsUpTo(_, _)
SeqsUpTo(S, n) ==
    IF n = 0 THEN { <<>> }
    ELSE LET shorter == SeqsUpTo(S, n - 1)
         IN shorter \cup { Append(q, x) : q \in shorter, x \in S }

TextBytes(lines, eol) == Concat([i \in DOMAIN lines |-> lines[i] \o eol])

FirstListContents == { TextBytes(l, e) : l \in SeqsUpTo(LineTexts, MaxLines) \ { <<>> }, e \in Eols }
SecondContents == { TextBytes(<< <<"B">>, S_NVMP_esp >>, <<"\n">>) }

Caps == (0..MaxCap) \cup { DEFAULT_MAX_MATCHES }

\* always there: the anchor, the working directory, the game directory with Data
\* and one unrelated plugin
BaseFs ==
    ( <<Anchor>> :> DirNode ) @@ ( WorkDir :> DirNode ) @@ ( GameDir :> DirNode )
        @@ ( DataDir :> DirNode ) @@ ( OtherFile :> FileNode(<<"o">>) )

\* the optional parts of the tree
ExeParts == { <<>>, ( Append(GameDir, S_FalloutNV_exe) :> FileNode(<<"e">>) ) }
LauncherParts == { <<>>, ( Append(DataDir, S_Launcher) :> FileNode(<<"x">>) ) }
FirstListParts ==
    { <<>> } \cup { ( Append(DataDir, S_plugins_txt) :> FileNode(b) ) : b \in FirstListContents }
SecondTargetParts ==
    { <<>> } \cup { ( Append(GameDir, n) :> FileNode(b) ) :
                        n \in { S_plugins_txt, S_Fallout_ini }, b \in SecondContents }
ChainParts ==
    { <<>>,
      ( Append(GameDir, S_nvmp) :> DirNode )
          @@ ( GameDir \o <<S_nvmp, S_nvmp_d>> :> DirNode )
          @@ ( GameDir \o <<S_nvmp, S_nvmp_d, S_nvmp_log>> :> FileNode(<<"l">>) ) }
LinkParts == { <<>> } \cup { ( LinkPath :> LinkNode(t) ) : t \in { OtherFile, GonePath } }
\* what an earlier run left under the backup base
OldBackup(base) == backup_root(base, Now - 1)
OldBackupParts(base) ==
    { <<>>,
      ( OldBackup(base) :> DirNode )
          @@ ( BakPath(OldBackup(base), Append(DataDir, S_plugins_txt)) :> FileNode(<<"A", "\n">>) ) }

\* the base directory of the backup destination
BackupBase(a) == IF a.backup_dir # None THEN a.backup_dir ELSE a.cwd
BackupDest == backup_root(BackupBase(args), args.now)

Unused == <<>>

\* A run starts with --game given or not (no game is installed where the detectors
\* look when it is not), either mode, a cap, the backup base left to the working
\* directory or set inside the game directory, and a tree with at most MaxParts of
\* its optional parts (none when FalloutNV.exe is missing: nothing is read then).
Init ==
    /\ os_name \in { "nt", "posix" }
    /\ \E game \in { None, GameDir }, del \in BOOLEAN, cap \in Caps,
          bd \in { None, GameDir } :
            args = [game |-> game, delete |-> del, max_matches |-> cap,
                    backup_dir |-> bd, cwd |-> WorkDir, now |-> Now]
    /\ \E exe \in ExeParts, la \in LauncherParts, t1 \in FirstListParts,
          t2 \in SecondTargetParts, ch \in ChainParts, li \in LinkParts,
          ob \in OldBackupParts(BackupBase(args)) :
            /\ Cardinality({ i \in 1..6 : <<la, t1, t2, ch, li, ob>>[i] # <<>> })
                   <= (IF exe = <<>> THEN 0 ELSE MaxParts)
            /\ args.game = None => exe = <<>>
            /\ fs = exe @@ la @@ t1 @@ t2 @@ ch @@ li @@ ob @@ BaseFs
    /\ fs0 = fs
    /\ pc = "start"
    /\ exit_code = -1
    /\ roots = <<>>
    /\ backup_dir = None
    /\ found = <<>>
    /\ matches = <<>>
    /\ todo = <<>>
    /\ targets = <<>>
    /\ edit_msgs = <<>>
    /\ results = <<>>
    /\ failures = 0
    /\ cin = Unused /\ cout = Unused /\ cout2 = Unused /\ cstep = "unused"

(***************************************************************************)
(* main()                                                                  *)
(***************************************************************************)
collapseVars == <<cin, cout, cout2, cstep>>
envVars == <<os_name, args, fs0>>

\* game_dir = resolve_path(args.game) if args.game else autodetect_game_dir()
main_game_dir == IF args.game # None THEN args.game ELSE autodetect_game_dir(fs)

\* the two fatal configuration checks
ConfigFails ==
    LET game_dir == main_game_dir
    IN IF args.game # None /\ game_dir # None
              /\ ~ path_exists(fs, Append(game_dir, S_FalloutNV_exe))
       THEN TRUE
       ELSE game_dir = None

\* a main() that leaves the directory to whoever needs it first
main_backup_fs_lazy(f, bdir) == f

\* "Backup folder location": the directory main() makes before it scans
main_backup_fs(f, bdir) == ensure_dir(f, bdir)

ConfigError ==
    /\ pc = "start"
    /\ ConfigFails
    /\ pc' = "done"
    /\ exit_code' = 2
    /\ UNCHANGED <<envVars, fs, roots, backup_dir, found, matches, todo, targets,
                   edit_msgs, results, failures, collapseVars>>

Configure ==
    /\ pc = "start"
    /\ ~ ConfigFails
    /\ roots' = build_roots(fs, main_game_dir)
    /\ IF args.delete
       THEN /\ backup_dir' = None
            /\ fs' = fs
       ELSE /\ backup_dir' = backup_root(BackupBase(args), args.now)
            /\ fs' = main_backup_fs(fs, backup_dir')
    /\ pc' = "scan"
    /\ UNCHANGED <<envVars, exit_code, found, matches, todo, targets, edit_msgs,
                   results, failures, collapseVars>>

\* steps 1) and 2): the walk, the collapse and the text targets
Scan ==
    /\ pc = "scan"
    /\ found' = walk_find_matches(fs, roots, args.max_matches)
    /\ matches' = collapse_covered_paths(found')
    /\ LET tt == find_text_targets(fs, roots)
       IN /\ targets' = tt[1] \o tt[2]
          /\ todo' = targets'
          /\ pc' = IF targets' = <<>> THEN "remove" ELSE "edit"
    /\ UNCHANGED <<envVars, fs, exit_code, roots, backup_dir, edit_msgs, results,
                   failures, collapseVars>>

\* one turn of the two loops over loadlists and inis
StripNext ==
    /\ pc = "edit"
    /\ todo # <<>>
    /\ \E fail \in { "none", "read", "write" } :
          /\ fail # "none" => failures < MaxFailures
          /\ LET r == strip_nvmp_lines_from_text_file(fs, Head(todo), backup_dir,
                                                     args.delete, fail)
             IN /\ fail # "none" => r.failed
                /\ fs' = r.fs
                /\ edit_msgs' = edit_msgs \o r.msgs
                /\ failures' = IF r.failed THEN failures + 1 ELSE failures
                /\ pc' = IF r.escaped THEN "crashed"
                         ELSE IF Tail(todo) = <<>> THEN "remove" ELSE "edit"
                /\ exit_code' = IF r.escaped THEN 1 ELSE exit_code
    /\ todo' = Tail(todo)
    /\ UNCHANGED <<envVars, roots, backup_dir, found, matches, targets,
                   results, collapseVars>>

\* "No NVMP artifacts found ...": return 0
NothingFound ==
    /\ pc = "remove"
    /\ matches = <<>> /\ edit_msgs = <<>>
    /\ pc' = "done"
    /\ exit_code' = 0
    /\ UNCHANGED <<envVars, fs, roots, backup_dir, found, matches, todo, targets,
                   edit_msgs, results, failures, collapseVars>>

\* one turn of the loop over matches
RemoveNext ==
    /\ pc = "remove"
    /\ ~ (matches = <<>> /\ edit_msgs = <<>>)
    /\ Len(results) < Len(matches)
    /\ \E fail \in BOOLEAN :
          /\ fail => failures < MaxFailures
          /\ LET r == remove_path(fs, matches[Len(results) + 1], backup_dir,
                                  args.delete, fail)
             IN /\ fail => r.existed
                /\ fs' = r.fs
                /\ results' = Append(results, [path |-> r.path, outcome |-> r.outcome,
                                               dst |-> r.dst, existed |-> r.existed])
                /\ pc' = IF r.escaped THEN "crashed" ELSE "remove"
                /\ exit_code' = IF r.escaped THEN 1 ELSE exit_code
                /\ failures' = IF fail /\ r.existed THEN failures + 1 ELSE failures
    /\ UNCHANGED <<envVars, roots, backup_dir, found, matches, todo, targets,
                   edit_msgs, collapseVars>>

\* the summary, "DONE.", return 0
Finish ==
    /\ pc = "remove"
    /\ ~ (matches = <<>> /\ edit_msgs = <<>>)
    /\ Len(results) = Len(matches)
    /\ pc' = "done"
    /\ exit_code' = 0
    /\ UNCHANGED <<envVars, fs, roots, backup_dir, found, matches, todo, targets,
                   edit_msgs, results, failures, collapseVars>>

Next ==
    \/ ConfigError
    \/ Configure
    \/ Scan
    \/ StripNext
    \/ NothingFound
    \/ RemoveNext
    \/ Finish

Spec == Init /\ [][Next]_vars

(***************************************************************************)
(* collapse_covered_paths on its own: any list of distinct paths, then the *)
(* collapse, then the collapse of its result                               *)
(***************************************************************************)
MaxPaths == 3        \* paths in the list given to the collapse

CollapseNames == { S_nvmp, S_nvmp_d }
CollapseUniverse ==
    LET d1 == { Append(GameDir, a) : a \in CollapseNames }
        d2 == { Append(q, a) : q \in d1, a \in CollapseNames }
        d3 == { Append(q, a) : q \in d2, a \in CollapseNames }
    IN d1 \cup d2 \cup d3

CollapseInputs ==
    { l \in SeqsUpTo(CollapseUniverse, MaxPaths) : Cardinality(Range(l)) = Len(l) }

InitCollapse ==
    /\ os_name \in { "nt", "posix" }
    /\ cin \in CollapseInputs
    /\ cout = Unused /\ cout2 = Unused
    /\ cstep = "input"
    /\ args = Unused /\ fs = Unused /\ fs0 = Unused
    /\ pc = "unused" /\ exit_code = -1
    /\ roots = <<>> /\ backup_dir = None /\ found = <<>> /\ matches = <<>>
    /\ todo = <<>> /\ targets = <<>> /\ edit_msgs = <<>> /\ results = <<>>
    /\ failures = 0

mainVars == <<args, fs, fs0, pc, exit_code, roots, backup_dir, found, matches, todo,
              targets, edit_msgs, results, failures>>

CollapseOnce ==
    /\ cstep = "input"
    /\ cout' = collapse_covered_paths(cin)
    /\ cstep' = "once"
    /\ UNCHANGED <<os_name, cin, cout2, mainVars>>

CollapseTwice ==
    /\ cstep = "once"
    /\ cout2' = collapse_covered_paths(cout)
    /\ cstep' = "twice"
    /\ UNCHANGED <<os_name, cin, cout, mainVars>>

NextCollapse ==
    \/ CollapseOnce
    \/ CollapseTwice

SpecCollapse == InitCollapse /\ [][NextCollapse]_vars

(***************************************************************************)
(* Properties                                                              *)
(***************************************************************************)
Edited == { i \in DOMAIN edit_msgs : edit_msgs[i].kind = "EDITED" }
ConfigPassed == pc \notin { "start", "unused" } /\ exit_code # 2
Scanned == ConfigPassed /\ pc # "scan"

\* the pre-edit bytes of text target p are in name.bak under directory d
HasPristineBak(d, p) ==
    /\ BakPath(d, p) \in DOMAIN fs
    /\ fs[BakPath(d, p)] = FileNode(fs0[p].data)

\* C1: in delete mode every text target that was rewritten has a .bak copy of its
\* pre-edit contents in the backup destination, and when nothing was rewritten no
\* backup directory is created (artifact removal makes none).
C1_DeleteModeBak ==
    (ConfigPassed /\ args.delete) =>
        /\ \A i \in Edited : HasPristineBak(BackupDest, edit_msgs[i].path)
        /\ Edited = {} => (BackupDest \in DOMAIN fs => BackupDest \in DOMAIN fs0)

\* C2: at the end of a backup-mode run every text target edited during the run has
\* a .bak copy in the backup destination equal to its contents before the edit.
C2_BackupModeBak ==
    (pc = "done" /\ exit_code = 0 /\ ~ args.delete) =>
        \A i \in Edited : HasPristineBak(backup_dir, edit_msgs[i].path)

\* the original absolute path with the drive separator ":" (and the path
\* separators of the anchor) removed, as a path relative to the backup root
MirrorRel(p) ==
    LET Plain(c) == c \notin { ":", "/", "\\" }
        parts == [i \in DOMAIN p |-> SelectSeq(p[i], Plain)]
        NonEmpty(part) == part # <<>>
    IN SelectSeq(parts, NonEmpty)

\* C3: in backup mode every path whose outcome is MOVED is gone from its original
\* location and is inside the backup root at the location mirroring its absolute
\* path; the destination is a descendant of the backup root.
C3_MovedMirrors ==
    ConfigPassed =>
        \A i \in DOMAIN results :
            (~ args.delete /\ results[i].outcome = "MOVED") =>
                /\ ~ path_exists(fs, results[i].path)
                /\ results[i].dst = backup_dir \o MirrorRel(results[i].path)
                /\ results[i].dst \in DOMAIN fs
                /\ IsUnder(backup_dir, results[i].dst)

NoNesting(l) == \A a \in Range(l), b \in Range(l) : ~ IsUnder(a, b)

\* C4 as stated: no member of the result is below another; for D and P in the
\* input with P below D the result excludes P and retains D; the collapse of the
\* result is the result.
C4_RetainsEveryAncestor ==
    /\ cstep \in { "once", "twice" } =>
          /\ NoNesting(cout)
          /\ \A D \in Range(cin), P \in Range(cin) :
                IsUnder(D, P) => (P \notin Range(cout) /\ D \in Range(cout))
    /\ cstep = "twice" => cout2 = cout

\* C4, amended: no member of the result is below another; for D and P in the
\* input with P below D the result excludes P, and it retains D unless D is itself
\* below a member of the input; the result is exactly the input's members with no
\* ancestor in the input; the collapse of the result is the result.
C4_Collapse ==
    /\ cstep \in { "once", "twice" } =>
          /\ NoNesting(cout)
          /\ \A D \in Range(cin), P \in Range(cin) :
                IsUnder(D, P) =>
                    /\ P \notin Range(cout)
                    /\ (~ \E E \in Range(cin) : IsUnder(E, D)) => D \in Range(cout)
          /\ Range(cout) = { p \in Range(cin) : ~ \E E \in Range(cin) : IsUnder(E, p) }
    /\ cstep = "twice" => cout2 = cout

\* the collapse ran twice on an input holding a chain E > D > P
C4_Witness ==
    /\ cstep = "twice"
    /\ \E E \in Range(cin), D \in Range(cin), P \in Range(cin) :
          IsUnder(E, D) /\ IsUnder(D, P) /\ E \in Range(cout2)

\* the distinct artifacts a walk without a cap would record
Qualifying == { resolve(fs0, c) : c \in Range(Candidates(fs0, WalkRoots(fs0, roots))) }

\* C5: walk_find_matches returns at most cap paths for every accepted cap (exactly
\* one with cap = 1 and two qualifying artifacts), and the run goes on to the
\* removal and exits 0.
C5_AtMostCap ==
    /\ Scanned => Len(found) <= args.max_matches
    /\ (Scanned /\ args.max_matches = 1 /\ Cardinality(Qualifying) >= 2) => Len(found) = 1
    /\ (pc = "done" /\ ConfigPassed) => (exit_code = 0 /\ Len(results) = Len(matches))

\* the lines of the bytes b (terminators kept) that do not match
KeptBytes(b) ==
    LET Keep(line) == ~ pat_match(line)
    IN Concat(SelectSeq(splitlines(b, <<>>), Keep))

Cleaned == { targets[i] : i \in 1..(Len(targets) - Len(todo)) }
HasMatchingLine(b) == \E i \in DOMAIN splitlines(b, <<>>) : pat_match(splitlines(b, <<>>)[i])

\* C6: a rewritten text target holds exactly its original non-matching lines, in
\* order, each with its original terminator; a target without a matching line is
\* not written and yields no message.
C6_KeptLinesVerbatim ==
    ConfigPassed =>
        /\ \A i \in Edited :
              LET p == edit_msgs[i].path
              IN /\ fs[p].data = KeptBytes(fs0[p].data)
                 /\ Len(splitlines(fs[p].data, <<>>))
                        = Len(splitlines(fs0[p].data, <<>>)) - edit_msgs[i].removed
        /\ \A p \in Cleaned :
              ~ HasMatchingLine(fs0[p].data) =>
                  /\ fs[p] = fs0[p]
                  /\ \A i \in DOMAIN edit_msgs :
                        edit_msgs[i].path = p => edit_msgs[i].kind = "ERROR"

Outcomes == { "MOVED", "DELETED", "SKIP", "ERROR" }

\* C7: no failure aborts the batch: the run never ends in an exception; the k-th
\* outcome belongs to the k-th collapsed match and is one of the four; a path that
\* does not exist gets SKIP; a run that passed the configuration checks ends with
\* every text target attempted, one outcome per match and exit status 0.
C7_NoAbort ==
    /\ pc # "crashed"
    /\ Len(results) <= Len(matches)
    /\ \A i \in DOMAIN results :
          /\ results[i].path = matches[i]
          /\ results[i].outcome \in Outcomes
          /\ ~ results[i].existed => results[i].outcome = "SKIP"
    /\ \A i \in DOMAIN edit_msgs : edit_msgs[i].path \in Cleaned
    /\ (pc = "done" /\ ConfigPassed) =>
          /\ exit_code = 0
          /\ todo = <<>>
          /\ Len(results) = Len(matches)

\* a finished run in which one removal failed and a later one went through
C7_Witness ==
    /\ pc = "done"
    /\ exit_code = 0
    /\ \E i \in DOMAIN results, j \in DOMAIN results :
          /\ i < j
          /\ results[i].outcome = "ERROR"
          /\ results[j].outcome \in { "MOVED", "DELETED" }

TextNames == Range(LOADLIST_FILENAMES) \cup Range(INI_FILENAMES)

\* q is a file the run has no business with
Unrelated(q) ==
    /\ fs0[q].kind = "file"
    /\ ~ pat_match(PathName(q))
    /\ PathName(q) \notin TextNames
    /\ \A a \in PathParents(q) :
          (\E i \in DOMAIN roots : IsUnder(roots[i], a)) => ~ pat_match(PathName(a))

\* C8: when the run ends every unrelated file is still at its path, unchanged.
C8_UnrelatedUntouched ==
    (pc = "done" /\ exit_code = 0) =>
        \A q \in DOMAIN fs0 : Unrelated(q) => (q \in DOMAIN fs /\ fs[q] = fs0[q])

InBackups(q) ==
    \/ AtOrUnder(BackupDest, q)
    \/ AtOrUnder(OldBackup(BackupBase(args)), q)

\* C10: neither this run's backup destination nor an earlier run's, nor anything
\* inside them, is recorded by the walk or given to remove_path, and what an
\* earlier run left stays where it is.
C10_BackupsNotArtifacts ==
    pc # "unused" =>
        /\ \A i \in DOMAIN found : ~ InBackups(found[i])
        /\ \A i \in DOMAIN results : ~ InBackups(results[i].path)
        /\ \A q \in DOMAIN fs0 :
              AtOrUnder(OldBackup(BackupBase(args)), q) => (q \in DOMAIN fs /\ fs[q] = fs0[q])

====
